---- MODULE Spec2Model ----
(***************************************************************************)
(* A model of the three Hugging Face parquet metadata scripts:             *)
(*   scripts/fix_parquet_hf_metadata.py              ("fix")               *)
(*   scripts/convert_parquet_hf_list_to_sequence.py  ("convert")           *)
(*   scripts/normalize_parquet_hf_schema_meta.py     ("normalize")         *)
(*                                                                         *)
(* A parquet file is its data payload plus two key-value maps, the         *)
(* schema-level one (pq.read_schema(..).metadata) and the file-level one   *)
(* (pq.read_metadata(..).metadata).  Each map holds the huggingface blob   *)
(* and one other key, custom_tag.  A blob is a byte string: absent, empty, *)
(* bytes that do not parse, or JSON text in some formatting.  A run is the *)
(* walk of one directory, one step per entry, with the write of a file     *)
(* split at the points where pq.write_table or os.replace can fail.        *)
(***************************************************************************)
EXTENDS Integers, Sequences, FiniteSets, TLC

\* Bounds of the model.
MaxFeats == 2       \* entries of a feature map (rewrite inputs)
MaxFiles == 2       \* files of the walked directory
MaxLimit == 1       \* largest --limit
MaxRuns == 2        \* runs of the script over the same tree

(***************************************************************************)
(* Parsed JSON.  A document is its top-level kind, the kind of its "info"  *)
(* value, the kind of info's "features" value, the feature map as the      *)
(* sequence of its entries in insertion order, and an opaque remainder     *)
(* ("extra": every key outside info.features).  "other" is a value that is *)
(* not null and not a dict; "falsy" is a value Python's `or` replaces      *)
(* (null, 0, "", [], {}).                                                  *)
(***************************************************************************)
FeatureNames == <<"a", "b", "c", "d">>
TypeTags == {"List", "Sequence", "Value", "ClassLabel", "list", "none"}
InnerTags == {"none", "List", "Value"}
Lengths == {0, 5}

\* A feature-map entry that is not a dict (a string, a list, null).
NonRecord == [rec |-> FALSE, type |-> "none", inner |-> "none", length |-> 0]

\* FeatureSpec: rec = is a dict; type = its "_type" ("none": no such key);
\* inner = the "_type" of its nested "feature"; length = its "length".
FeatureSpecs ==
    {NonRecord} \cup [rec : {TRUE}, type : TypeTags, inner : InnerTags, length : Lengths]

Entry(n, s) == [name |-> n, spec |-> s]

NullDoc == [top |-> "null", info |-> "missing", feats |-> "missing", entries |-> <<>>, extra |-> 0]

FeatDoc(entries, x) ==
    [top |-> "dict", info |-> "dict", feats |-> "dict", entries |-> entries, extra |-> x]

ShapeDoc(t, i, f) == [top |-> t, info |-> i, feats |-> f, entries |-> <<>>, extra |-> 0]

(***************************************************************************)
(* convert_list_to_sequence, both scripts.  The loop visits the entries in *)
(* feature-map order; acc is (entries so far, changes, changed_names).     *)
(***************************************************************************)
\* isinstance(spec, dict) and spec.get("_type") == "List", but case-blind.
is_list_spec_nocase(spec) == spec.rec /\ spec.type \in {"List", "list"}

\* isinstance(spec, dict) and spec.get("_type") == "List"
is_list_spec(spec) == spec.rec /\ spec.type = "List"

\* spec["_type"] = "Sequence"
retag(spec) == [spec EXCEPT !.type = "Sequence"]

RECURSIVE convert_loop(_, _)
convert_loop(feats, acc) ==
    IF feats = <<>> THEN acc
    ELSE LET e == Head(feats) IN
         IF is_list_spec(e.spec)
         THEN convert_loop(Tail(feats),
                  [entries |-> Append(acc.entries, Entry(e.name, retag(e.spec))),
                   changes |-> acc.changes + 1,
                   names |-> Append(acc.names, e.name)])
         ELSE convert_loop(Tail(feats), [acc EXCEPT !.entries = Append(@, e)])

\* What a call returns: ret = "triple" (hf, changes, changed_names), "pair"
\* (hf, 0) or the exception raised (info.get on a value with no .get).
Returned(ret, hf, changes, names) ==
    [ret |-> ret, hf |-> hf, changes |-> changes, names |-> names]

\* The shared body; full names the arity of the final return statement.
convert_body(hf, full) ==
    IF hf.top # "dict" THEN Returned("pair", hf, 0, <<>>)
    ELSE IF hf.info = "other" THEN Returned("AttributeError", hf, 0, <<>>)
    ELSE IF ~(hf.info = "dict" /\ hf.feats = "dict") THEN Returned("pair", hf, 0, <<>>)
    ELSE LET r == convert_loop(hf.entries, [entries |-> <<>>, changes |-> 0, names |-> <<>>])
         IN Returned(full, [hf EXCEPT !.entries = r.entries], r.changes,
                     IF full = "triple" THEN r.names ELSE <<>>)

\* fix_parquet_hf_metadata.convert_list_to_sequence
fix_convert_list_to_sequence(hf) == convert_body(hf, "triple")

\* convert_parquet_hf_list_to_sequence.convert_list_to_sequence
conv_convert_list_to_sequence(hf) == convert_body(hf, "pair")

(***************************************************************************)
(* Blobs and json.  json.loads drops the formatting of the text it parses  *)
(* and json.dumps(.., ensure_ascii=False) writes one formatting, "canon".  *)
(***************************************************************************)
Absent == [k |-> "absent", fmt |-> "-", doc |-> NullDoc]
EmptyBlob == [k |-> "empty", fmt |-> "-", doc |-> NullDoc]
Garbage == [k |-> "garbage", fmt |-> "-", doc |-> NullDoc]
Text(fmt, doc) == [k |-> "text", fmt |-> fmt, doc |-> doc]

\* bool(raw) for Optional[bytes]
Truthy(b) == b.k \notin {"absent", "empty"}

\* json.loads(raw.decode("utf-8")) does not raise
Parses(b) == b.k = "text"

\* json.loads(raw.decode("utf-8")), where it parses
json_loads(b) == b.doc

\* json.dumps(doc, indent=2): text in another formatting.
json_dumps_spaced(doc) == Text("spaced", doc)

\* json.dumps(doc, ensure_ascii=False).encode("utf-8")
json_dumps(doc) == Text("canon", doc)

(***************************************************************************)
(* Files.  st: "absent" (no such path), "complete" or "partial" (created  *)
(* or truncated by a write that has not finished).  data identifies the    *)
(* payload; smeta and fmeta are the schema-level and file-level maps.      *)
(***************************************************************************)
Meta(hf, custom) == [hf |-> hf, custom |-> custom]
NoMeta == Meta(Absent, "absent")
NoFile == [st |-> "absent", kind |-> "-", data |-> 0, smeta |-> NoMeta, fmeta |-> NoMeta]
PartialFile == [st |-> "partial", kind |-> "-", data |-> 0, smeta |-> NoMeta, fmeta |-> NoMeta]
Parquet(d, sm, fm) == [st |-> "complete", kind |-> "parquet", data |-> d, smeta |-> sm, fmeta |-> fm]
OtherFile(d) == [st |-> "complete", kind |-> "other", data |-> d, smeta |-> NoMeta, fmeta |-> NoMeta]

\* pq.read_table(src): the payload and the schema-level map.
read_table(f) == [data |-> f.data, meta |-> f.smeta]

\* pq.write_table(table, path), completed: the schema's map is stored with the
\* schema and copied into the file-level key-value map.
write_table(table) == Parquet(table.data, table.meta, table.meta)

\* existing[b"huggingface"] = blob
set_hf(existing, blob) == [existing EXCEPT !.hf = blob]

\* existing.update(new): every key new holds replaces existing's.
dict_update(existing, new) ==
    Meta(IF new.hf.k # "absent" THEN new.hf ELSE existing.hf,
         IF new.custom # "absent" THEN new.custom ELSE existing.custom)

(***************************************************************************)
(* Paths.  Src(i) is the i-th file of the walked root, Dst(i) the path     *)
(* out_root / rel of a distinct output tree, Tmp the NamedTemporaryFile    *)
(* in the source directory.                                                *)
(***************************************************************************)
Src(i) == <<"src", i>>
Dst(i) == <<"dst", i>>
Tmp == <<"tmp", 0>>
Paths == {Src(i) : i \in 1..MaxFiles} \cup {Dst(i) : i \in 1..MaxFiles} \cup {Tmp}

(***************************************************************************)
(* The inputs.  A tree is one file of any metadata combination, or several *)
(* files of a few basic kinds.                                             *)
(***************************************************************************)
DocList ==
    FeatDoc(<<Entry("a", [rec |-> TRUE, type |-> "List", inner |-> "Value", length |-> 0]),
              Entry("b", [rec |-> TRUE, type |-> "Value", inner |-> "none", length |-> 0])>>, 0)
DocSeq ==
    FeatDoc(<<Entry("a", [rec |-> TRUE, type |-> "Sequence", inner |-> "Value", length |-> 0]),
              Entry("b", [rec |-> TRUE, type |-> "Value", inner |-> "none", length |-> 0])>>, 0)

SlotVals ==
    {Absent, EmptyBlob, Garbage,
     Text("canon", DocList), Text("canon", DocSeq), Text("spaced", DocSeq),
     Text("canon", NullDoc),
     Text("canon", ShapeDoc("other", "missing", "missing")),
     Text("canon", ShapeDoc("dict", "missing", "missing")),
     Text("canon", ShapeDoc("dict", "other", "missing")),
     Text("canon", ShapeDoc("dict", "dict", "other"))}

CustomPairs == {<<"absent", "absent">>, <<"a", "a">>, <<"a", "b">>}

VariedFiles ==
    {Parquet(0, Meta(sh, c[1]), Meta(fh, c[2])) : sh \in SlotVals, fh \in SlotVals, c \in CustomPairs}
    \cup {OtherFile(0)}

BasicFiles ==
    {OtherFile(0),
     Parquet(0, Meta(Text("canon", DocList), "a"), Meta(Absent, "absent")),
     Parquet(0, Meta(Text("canon", DocSeq), "a"), Meta(Text("canon", DocSeq), "a")),
     Parquet(0, NoMeta, NoMeta),
     Parquet(0, Meta(Text("canon", DocList), "a"), Meta(Text("canon", DocSeq), "b"))}

Trees ==
    {<<f>> : f \in VariedFiles}
    \cup UNION {[1..n -> BasicFiles] : n \in 2..MaxFiles}

\* The tree as a filesystem: file i carries payload i.
TreeFs(t) ==
    [p \in Paths |->
        IF p[1] = "src" /\ p[2] <= Len(t) THEN [t[p[2]] EXCEPT !.data = p[2]] ELSE NoFile]

(***************************************************************************)
(* The command line.  limit NoLimit is --limit not given.  out is the      *)
(* --out argument: "none", "other" (a directory unrelated to the root),    *)
(* "parent" (the root's parent directory) or "root" (the root itself).     *)
(* normalize has only --dry-run (apply = no --dry-run).                    *)
(***************************************************************************)
NoLimit == -1
Limits == {NoLimit} \cup 0..MaxLimit

Args ==
    [script : {"fix"}, apply : BOOLEAN, prefer : {"auto", "file", "schema"},
     limit : Limits, out : {"none", "other", "parent"}]
    \cup [script : {"convert"}, apply : BOOLEAN, prefer : {"auto"},
          limit : Limits, out : {"none", "other", "root"}]
    \cup [script : {"normalize"}, apply : BOOLEAN, prefer : {"auto"},
          limit : {NoLimit}, out : {"none"}]

(***************************************************************************)
(* State.                                                                  *)
(***************************************************************************)
VARIABLES
    args,       \* the parsed command line
    fs,         \* path -> file
    orig,       \* fs as it was when the current run started
    dirMade,    \* a directory of a distinct output tree has been created
    run,        \* 1 + the number of completed earlier runs
    pos,        \* the walk's next entry: 0 the directory, i the i-th file
    pc,         \* "walk", "tmp_created", "tmp_written", "dest_writing", "done", "crashed"
    err,        \* the exception that left main, "none" if none
    leaked,     \* the best-effort tmp_path.unlink() of the except clause failed
    cur,        \* the write in progress: [src, target, table]
    outcome,    \* file -> outcome record line of this run
    calc,       \* file -> what main computed for it in this run
    prev,       \* file -> outcome of the previous run
    counters,   \* the summary's counters
    rw          \* the rewrite on its own: [hf, fn, res]

vars == <<args, fs, orig, dirMade, run, pos, pc, err, leaked, cur, outcome, calc, prev,
          counters, rw>>

Files == 1..MaxFiles

\* The number of files the walk yields (os.walk lists the directory once,
\* before any file is written).
NumFiles == Cardinality({i \in Files : orig[Src(i)].st # "absent"})

\* out_root is set.
HasOut == args.out # "none"

\* out_root is the walked root itself: fix nests under <out>/<root's basename>
\* (the root's parent gives the root), convert uses <out> as it is.
OutIsRoot ==
    \/ args.script = "fix" /\ args.out = "parent"
    \/ args.script = "convert" /\ args.out = "root"

\* out_root / rel for the i-th file.
DestPath(i) == IF OutIsRoot THEN Src(i) ELSE Dst(i)

NoCur == [src |-> 0, target |-> Tmp, table |-> read_table(NoFile)]
NoCalc ==
    [handed |-> FALSE, chosen |-> NullDoc, changes |-> 0, names |-> <<>>,
     needs_write |-> FALSE, target_bytes |-> Absent]
ZeroCounters ==
    [total |-> 0, seen |-> 0, affected |-> 0, changed |-> 0, copied |-> 0, skipped |-> 0]
NoRw == [hf |-> NullDoc, fn |-> "none", res |-> Returned("none", NullDoc, 0, <<>>)]

\* normalize's loop handles files only.
FirstPos(a) == IF a.script = "normalize" THEN 1 ELSE 0

RunStart(a, f) ==
    /\ args = a
    /\ fs = f
    /\ orig = f
    /\ dirMade = FALSE
    /\ run = 1
    /\ pos = FirstPos(a)
    /\ pc = "walk"
    /\ err = "none"
    /\ leaked = FALSE
    /\ cur = NoCur
    /\ outcome = [i \in Files |-> "UNSEEN"]
    /\ calc = [i \in Files |-> NoCalc]
    /\ prev = [i \in Files |-> "UNSEEN"]
    /\ counters = ZeroCounters

Init ==
    /\ \E a \in Args, t \in Trees : RunStart(a, TreeFs(t))
    /\ rw = NoRw

(***************************************************************************)
(* The steps every handler ends in.                                        *)
(***************************************************************************)
Frame == UNCHANGED <<args, orig, run, prev, rw>>

\* The handler of file i returns (continue): the loop moves on.
Continue(i, oc, c, cnt, newfs, made) ==
    /\ fs' = newfs
    /\ dirMade' = made
    /\ outcome' = [outcome EXCEPT ![i] = oc]
    /\ calc' = [calc EXCEPT ![i] = c]
    /\ counters' = cnt
    /\ pos' = pos + 1
    /\ pc' = "walk"
    /\ UNCHANGED <<err, leaked, cur>>
    /\ Frame

\* An exception leaves the handler of file i; main catches nothing.
Raise(i, e, c, cnt, newfs, lk) ==
    /\ fs' = newfs
    /\ outcome' = [outcome EXCEPT ![i] = "FAILED"]
    /\ calc' = [calc EXCEPT ![i] = c]
    /\ counters' = cnt
    /\ pc' = "crashed"
    /\ err' = e
    /\ leaked' = lk
    /\ UNCHANGED <<dirMade, pos, cur>>
    /\ Frame

\* dest.parent.mkdir(parents=True, exist_ok=True): the source directory exists.
mkdir(made) == IF OutIsRoot THEN made ELSE TRUE

\* shutil.copy2(path, dest)
copy2(f, path, dest) == [f EXCEPT ![dest] = f[path]]

\* The copy-through without its `if apply:`.
copy_through_unguarded(i) == copy2(fs, Src(i), DestPath(i))

\* if apply: dest.parent.mkdir(..); shutil.copy2(path, dest)
copy_through(i) == IF args.apply THEN copy2(fs, Src(i), DestPath(i)) ELSE fs

\* The passthrough copy of file i when out_root is set; copy2 raises
\* SameFileError when dest is path.
CopyThrough(i, oc, c, cnt) ==
    IF args.apply /\ OutIsRoot
    THEN Raise(i, "SameFileError", c, counters, fs, leaked)
    ELSE Continue(i, oc, c, cnt, copy_through(i), IF args.apply THEN mkdir(dirMade) ELSE dirMade)

\* CopyThrough if out_root is set, else nothing.
PassThrough(i, oc, c, cnt) ==
    IF HasOut THEN CopyThrough(i, oc, c, cnt) ELSE Continue(i, oc, c, cnt, fs, dirMade)

\* The temp-file branch: NamedTemporaryFile(dir=src.parent, delete=False)
\* has created an empty file; write_table comes next.
BeginTmpWrite(i, table, c, cnt) ==
    /\ fs' = [fs EXCEPT ![Tmp] = PartialFile]
    /\ cur' = [src |-> i, target |-> Tmp, table |-> table]
    /\ calc' = [calc EXCEPT ![i] = c]
    /\ counters' = cnt
    /\ pc' = "tmp_created"
    /\ UNCHANGED <<dirMade, pos, err, leaked, outcome>>
    /\ Frame

\* The direct branch: pq.write_table(new_table, str(dest)) has opened dest.
BeginDestWrite(i, dest, table, c, cnt, made) ==
    /\ fs' = [fs EXCEPT ![dest] = PartialFile]
    /\ dirMade' = made
    /\ cur' = [src |-> i, target |-> dest, table |-> table]
    /\ calc' = [calc EXCEPT ![i] = c]
    /\ counters' = cnt
    /\ pc' = "dest_writing"
    /\ UNCHANGED <<pos, err, leaked, outcome>>
    /\ Frame

(***************************************************************************)
(* fix_parquet_hf_metadata.py                                              *)
(***************************************************************************)
HFMeta(source, json, raw_file, raw_schema) ==
    [source |-> source, json |-> json, raw_file |-> raw_file, raw_schema |-> raw_schema]

\* try: json.loads(..) except Exception: None.  None is the null document.
loads_or_none(b) == IF Parses(b) THEN json_loads(b) ELSE NullDoc

read_hf_metadata(f) ==
    LET raw_file == f.fmeta.hf
        raw_schema == f.smeta.hf
    IN  IF Truthy(raw_file) THEN HFMeta("file", loads_or_none(raw_file), raw_file, raw_schema)
        ELSE IF Truthy(raw_schema)
        THEN HFMeta("schema", loads_or_none(raw_schema), raw_file, raw_schema)
        ELSE HFMeta("none", NullDoc, Absent, Absent)

\* main: "Choose authoritative source if caller forces a preference"
chosen_json(prefer, m) ==
    IF prefer = "schema" /\ Truthy(m.raw_schema)
    THEN (IF Parses(m.raw_schema) THEN json_loads(m.raw_schema) ELSE m.json)
    ELSE IF prefer = "file" /\ Truthy(m.raw_file)
    THEN (IF Parses(m.raw_file) THEN json_loads(m.raw_file) ELSE m.json)
    ELSE m.json

\* main: schema_same, file_same, needs_write
needs_write(m, target_bytes) ==
    LET schema_same == m.raw_schema = target_bytes
        file_same == IF m.raw_file.k # "absent" THEN m.raw_file = target_bytes ELSE FALSE
    IN  ~(schema_same /\ file_same)

\* The table to write, its blob serialized in another formatting than the
\* one main compares with.
fix_new_table_indent(f, hf_json) ==
    LET table == read_table(f)
    IN  [table EXCEPT !.meta = set_hf(table.meta, json_dumps_spaced(hf_json))]

\* write_with_hf_metadata up to its branch: the table to write.
fix_new_table(f, hf_json) ==
    LET table == read_table(f)
    IN  [table EXCEPT !.meta = set_hf(table.meta, json_dumps(hf_json))]

\* write_with_hf_metadata that ignores dest and always rewrites src in place.
write_in_place_always(i, hf_json, c, cnt) ==
    BeginTmpWrite(i, fix_new_table(fs[Src(i)], hf_json), c, cnt)

\* write_with_hf_metadata(path, dest, updated_json), to the start of its write.
write_with_hf_metadata(i, hf_json, c, cnt) ==
    IF ~HasOut \/ DestPath(i) = Src(i)
    THEN BeginTmpWrite(i, fix_new_table(fs[Src(i)], hf_json), c, cnt)
    ELSE BeginDestWrite(i, DestPath(i), fix_new_table(fs[Src(i)], hf_json), c, cnt,
                        mkdir(dirMade))

\* The directory entry of the walk (fix and convert): mirror it when applying.
WalkDir ==
    /\ args.script \in {"fix", "convert"}
    /\ pc = "walk"
    /\ pos = 0
    /\ pos' = 1
    /\ dirMade' = IF HasOut /\ args.apply THEN mkdir(dirMade) ELSE dirMade
    /\ UNCHANGED <<fs, pc, err, leaked, cur, outcome, calc, counters>>
    /\ Frame

\* One file entry of fix's main loop.
FixFile(i) ==
    /\ args.script = "fix"
    /\ pc = "walk"
    /\ pos = i
    /\ i <= NumFiles
    /\ LET f == fs[Src(i)]
           c1 == [counters EXCEPT !.total = @ + 1]
           c2 == [c1 EXCEPT !.seen = @ + 1]
           m == read_hf_metadata(f)
           chosen == chosen_json(args.prefer, m)
           r == fix_convert_list_to_sequence(chosen)
           target_bytes == json_dumps(r.hf)
           nw == needs_write(m, target_bytes)
           c0 == [NoCalc EXCEPT !.handed = TRUE, !.chosen = chosen]
           c == [handed |-> TRUE, chosen |-> chosen, changes |-> r.changes,
                 names |-> r.names, needs_write |-> nw, target_bytes |-> target_bytes]
           c3 == [c2 EXCEPT !.affected = @ + (IF nw THEN 1 ELSE 0),
                            !.changed = @ + r.changes]
       IN  IF f.kind # "parquet"
           THEN (IF HasOut
                 THEN CopyThrough(i, "COPIED", NoCalc, [counters EXCEPT !.copied = @ + 1])
                 ELSE Continue(i, "IGNORED", NoCalc, counters, fs, dirMade))
           ELSE IF args.limit # NoLimit /\ counters.seen >= args.limit
           THEN Continue(i, "LIMITED", NoCalc, c1, fs, dirMade)
           ELSE IF m.source = "none" \/ m.json.top = "null"
           THEN PassThrough(i, "NO-METADATA", NoCalc, c2)
           ELSE IF r.ret = "AttributeError"
           THEN Raise(i, "AttributeError", c0, c2, fs, leaked)
           ELSE IF r.ret = "pair"
           THEN Raise(i, "ValueError", c0, c2, fs, leaked)
           ELSE IF ~nw /\ ~HasOut
           THEN Continue(i, "SKIPPED", c, c2, fs, dirMade)
           ELSE IF args.apply
           THEN write_with_hf_metadata(i, r.hf, c, c3)
           ELSE Continue(i, "WOULD-WRITE", c, c3, fs, dirMade)

(***************************************************************************)
(* convert_parquet_hf_list_to_sequence.py                                  *)
(***************************************************************************)
\* load_hf_metadata: (hf, meta), hf None as the null document.
load_hf_metadata(f) ==
    LET meta == f.fmeta
        hf_raw == meta.hf
    IN  [hf |-> IF Truthy(hf_raw) THEN loads_or_none(hf_raw) ELSE NullDoc, meta |-> meta]

\* main: new_meta = dict(meta); new_meta[b"huggingface"] = json.dumps(updated_hf)..
conv_new_meta(meta, updated_hf) == set_hf(meta, json_dumps(updated_hf))

\* existing = dict(schema.metadata or {}); existing.update(new_metadata)
conv_new_table(f, new_metadata) ==
    LET table == read_table(f)
    IN  [table EXCEPT !.meta = dict_update(table.meta, new_metadata)]

\* One file entry of convert's main loop.
ConvFile(i) ==
    /\ args.script = "convert"
    /\ pc = "walk"
    /\ pos = i
    /\ i <= NumFiles
    /\ LET f == fs[Src(i)]
           c2 == [counters EXCEPT !.seen = @ + 1, !.total = @ + 1]
           l == load_hf_metadata(f)
           r == conv_convert_list_to_sequence(l.hf)
           c0 == [NoCalc EXCEPT !.handed = TRUE, !.chosen = l.hf]
           c == [c0 EXCEPT !.changes = r.changes]
           c3 == [c2 EXCEPT !.affected = @ + 1, !.changed = @ + r.changes]
           new_table == conv_new_table(f, conv_new_meta(l.meta, r.hf))
       IN  IF f.kind # "parquet"
           THEN (IF HasOut
                 THEN CopyThrough(i, "COPIED", NoCalc, [counters EXCEPT !.copied = @ + 1])
                 ELSE Continue(i, "IGNORED", NoCalc, counters, fs, dirMade))
           ELSE IF args.limit # NoLimit /\ counters.seen >= args.limit
           THEN Continue(i, "LIMITED", NoCalc, counters, fs, dirMade)
           ELSE IF l.hf.top = "null"
           THEN PassThrough(i, "NO-METADATA", NoCalc, c2)
           ELSE IF r.ret = "AttributeError"
           THEN Raise(i, "AttributeError", c0, c2, fs, leaked)
           ELSE IF r.changes = 0
           THEN PassThrough(i, "SKIPPED", c, c2)
           ELSE IF ~args.apply
           THEN Continue(i, "WOULD-WRITE", c, c3, fs, dirMade)
           ELSE IF HasOut
           THEN BeginDestWrite(i, DestPath(i), new_table, c, c3, mkdir(dirMade))
           ELSE BeginTmpWrite(i, new_table, c, c3)

(***************************************************************************)
(* normalize_parquet_hf_schema_meta.py                                     *)
(***************************************************************************)
\* One file of normalize's main loop: normalize_file(path, dry_run) and the
\* counters, to the start of its write.
NormFile(i) ==
    /\ args.script = "normalize"
    /\ pc = "walk"
    /\ pos = i
    /\ i <= NumFiles
    /\ LET f == fs[Src(i)]
           c1 == [counters EXCEPT !.total = @ + 1]
           skipped == [c1 EXCEPT !.skipped = @ + 1]
           hf_file == f.fmeta.hf
           hf_schema == f.smeta.hf
           source == IF Truthy(hf_file) THEN hf_file ELSE hf_schema
           src_json == json_loads(source)
           table == read_table(f)
           new_table == [table EXCEPT !.meta = set_hf(table.meta, json_dumps(src_json))]
           c == [NoCalc EXCEPT !.handed = TRUE, !.chosen = src_json]
       IN  IF f.kind # "parquet"
           THEN Continue(i, "IGNORED", NoCalc, counters, fs, dirMade)
           ELSE IF ~Truthy(hf_file) /\ ~Truthy(hf_schema)
           THEN Continue(i, "NO-METADATA", NoCalc, skipped, fs, dirMade)
           ELSE IF ~Parses(source)
           THEN Continue(i, "NO-METADATA", NoCalc, skipped, fs, dirMade)
           ELSE IF hf_schema = source
           THEN Continue(i, "SKIPPED", c, skipped, fs, dirMade)
           ELSE IF ~args.apply
           THEN Continue(i, "WOULD-WRITE", c, [c1 EXCEPT !.changed = @ + 1], fs, dirMade)
           ELSE BeginDestWrite(i, Src(i), new_table, c, c1, dirMade)

(***************************************************************************)
(* The write of a file, step by step (write_with_hf_metadata,              *)
(* rewrite_parquet_with_metadata, and the direct pq.write_table calls).    *)
(* pq.write_table and os.replace may fail; a failed write_table leaves a   *)
(* partial file at the path it was writing.                                *)
(***************************************************************************)
\* An except clause that re-raises without unlinking.
cleanup_none(f, unlinked) == f

\* except Exception: try: tmp_path.unlink(missing_ok=True) except: pass
cleanup(f, unlinked) == IF unlinked THEN [f EXCEPT ![Tmp] = NoFile] ELSE f

\* The file handler returns after its write: the [APPLIED] line.
Written(newfs, cnt) ==
    /\ fs' = newfs
    /\ outcome' = [outcome EXCEPT ![cur.src] = "WRITTEN"]
    /\ counters' = cnt
    /\ cur' = NoCur
    /\ pos' = pos + 1
    /\ pc' = "walk"
    /\ UNCHANGED <<dirMade, err, leaked, calc>>
    /\ Frame

\* pq.write_table(new_table, str(tmp_path)) returns.
TmpWriteOk ==
    /\ pc = "tmp_created"
    /\ fs' = [fs EXCEPT ![Tmp] = write_table(cur.table)]
    /\ pc' = "tmp_written"
    /\ UNCHANGED <<dirMade, pos, err, leaked, cur, outcome, calc, counters>>
    /\ Frame

\* pq.write_table(new_table, str(tmp_path)) raises: cleanup, re-raise.
TmpWriteFail ==
    /\ pc = "tmp_created"
    /\ \E unlinked \in BOOLEAN :
          Raise(cur.src, "WriteError", calc[cur.src], counters, cleanup(fs, unlinked),
                ~unlinked)

\* os.replace(str(tmp_path), str(src)) returns.
ReplaceOk ==
    /\ pc = "tmp_written"
    /\ Written([fs EXCEPT ![Src(cur.src)] = fs[Tmp], ![Tmp] = NoFile], counters)

\* os.replace raises: cleanup, re-raise.
ReplaceFail ==
    /\ pc = "tmp_written"
    /\ \E unlinked \in BOOLEAN :
          Raise(cur.src, "ReplaceError", calc[cur.src], counters, cleanup(fs, unlinked),
                ~unlinked)

\* pq.write_table(new_table, str(dest)) returns; normalize then counts the change.
DestWriteOk ==
    /\ pc = "dest_writing"
    /\ Written([fs EXCEPT ![cur.target] = write_table(cur.table)],
               IF args.script = "normalize"
               THEN [counters EXCEPT !.changed = @ + 1] ELSE counters)

\* pq.write_table(new_table, str(dest)) raises.
DestWriteFail ==
    /\ pc = "dest_writing"
    /\ Raise(cur.src, "WriteError", calc[cur.src], counters, fs, leaked)

\* The walk is exhausted: the summary line.
Summary ==
    /\ pc = "walk"
    /\ pos = NumFiles + 1
    /\ pc' = "done"
    /\ UNCHANGED <<fs, dirMade, pos, err, leaked, cur, outcome, calc, counters>>
    /\ Frame

\* The same command line is run again over the tree as the last run left it.
Rerun ==
    /\ pc = "done"
    /\ run < MaxRuns
    /\ run' = run + 1
    /\ orig' = fs
    /\ prev' = outcome
    /\ pos' = FirstPos(args)
    /\ pc' = "walk"
    /\ outcome' = [i \in Files |-> "UNSEEN"]
    /\ calc' = [i \in Files |-> NoCalc]
    /\ counters' = ZeroCounters
    /\ UNCHANGED <<args, fs, dirMade, err, leaked, cur, rw>>

Next ==
    \/ WalkDir
    \/ \E i \in Files : FixFile(i)
    \/ \E i \in Files : ConvFile(i)
    \/ \E i \in Files : NormFile(i)
    \/ TmpWriteOk
    \/ TmpWriteFail
    \/ ReplaceOk
    \/ ReplaceFail
    \/ DestWriteOk
    \/ DestWriteFail
    \/ Summary
    \/ Rerun

Spec == Init /\ [][Next]_vars

(***************************************************************************)
(* The rewrite on its own: every feature map of up to MaxFeats entries     *)
(* (an entry's name is given by its place, so the order is visible) and    *)
(* every other shape of document, handed to either script's function.      *)
(***************************************************************************)
RECURSIVE FeatSeqs(_)
FeatSeqs(n) ==
    IF n = 0 THEN {<<>>}
    ELSE LET S == FeatSeqs(n - 1)
         IN  S \cup {Append(s, Entry(FeatureNames[n], sp)) :
                        s \in {t \in S : Len(t) = n - 1}, sp \in FeatureSpecs}

Shapes ==
    {NullDoc, ShapeDoc("other", "missing", "missing")}
    \cup {ShapeDoc("dict", i, "missing") : i \in {"missing", "falsy", "other"}}
    \cup {ShapeDoc("dict", "dict", f) : f \in {"missing", "other"}}

RewriteDocs == {FeatDoc(e, x) : e \in FeatSeqs(MaxFeats), x \in {0, 1}} \cup Shapes

IdleArgs ==
    [script |-> "fix", apply |-> FALSE, prefer |-> "auto", limit |-> NoLimit, out |-> "none"]

InitRewrite ==
    /\ RunStart(IdleArgs, TreeFs(<<>>))
    /\ \E d \in RewriteDocs : rw = [NoRw EXCEPT !.hf = d]

RewriteFrame ==
    UNCHANGED <<args, fs, orig, dirMade, run, pos, pc, err, leaked, cur, outcome, calc,
                prev, counters>>

RewriteFix ==
    /\ rw.fn = "none"
    /\ rw' = [rw EXCEPT !.fn = "fix", !.res = fix_convert_list_to_sequence(rw.hf)]
    /\ RewriteFrame

RewriteConv ==
    /\ rw.fn = "none"
    /\ rw' = [rw EXCEPT !.fn = "convert", !.res = conv_convert_list_to_sequence(rw.hf)]
    /\ RewriteFrame

NextRewrite == RewriteFix \/ RewriteConv

SpecRewrite == InitRewrite /\ [][NextRewrite]_vars

(***************************************************************************)
(* Properties.                                                             *)
(***************************************************************************)
\* The document has the info.features map the rewrite works on.
HasFeatures(hf) == hf.top = "dict" /\ hf.info = "dict" /\ hf.feats = "dict"

\* The places of the entries tagged exactly "List".
ListPlaces(entries) ==
    {j \in 1..Len(entries) : entries[j].spec.rec /\ entries[j].spec.type = "List"}

\* The names at those places, in feature-map order.
RECURSIVE ListNames(_)
ListNames(entries) ==
    IF entries = <<>> THEN <<>>
    ELSE LET e == entries[Len(entries)]
             front == ListNames(SubSeq(entries, 1, Len(entries) - 1))
         IN  IF e.spec.rec /\ e.spec.type = "List" THEN Append(front, e.name) ELSE front

\* after is before with the _type of exactly its "List" entries set to
\* "Sequence" and nothing else changed: names, order, every other field of
\* every entry, every entry that is not a dict, everything outside the map.
IsRewriteOf(after, before) ==
    /\ Len(after.entries) = Len(before.entries)
    /\ \A j \in 1..Len(before.entries) :
          /\ after.entries[j].name = before.entries[j].name
          /\ after.entries[j].spec.rec = before.entries[j].spec.rec
          /\ after.entries[j].spec.inner = before.entries[j].spec.inner
          /\ after.entries[j].spec.length = before.entries[j].spec.length
          /\ after.entries[j].spec.type =
                IF j \in ListPlaces(before.entries)
                THEN "Sequence" ELSE before.entries[j].spec.type
    /\ [after EXCEPT !.entries = before.entries] = before

\* The handler of file i has begun in this run.
Started(i) == pos > i \/ (pos = i /\ pc # "walk")

\* The write in progress, or the one that failed, goes through the temp file.
ViaTmp == cur.src # 0 /\ cur.target = Tmp

\* C1: in-place write via temp file + rename.  While the temp file exists and
\* the rename has not completed, and after a failure of write_table or of
\* os.replace (the unlink of the except clause working), the file at the
\* original path is what it was before the call and no temp file is left; the
\* failure leaves main (the file is FAILED only with the run crashed on that
\* error); and whenever no write is in progress no temp file exists.
C1_InPlaceAtomic ==
    /\ pc \in {"tmp_created", "tmp_written"} =>
          /\ ViaTmp
          /\ fs[Src(cur.src)] = orig[Src(cur.src)]
    /\ (ViaTmp /\ outcome[cur.src] = "FAILED") =>
          /\ pc = "crashed"
          /\ err \in {"WriteError", "ReplaceError"}
          /\ fs[Src(cur.src)] = orig[Src(cur.src)]
          /\ ~leaked => fs[Tmp] = NoFile
    /\ \A i \in Files : outcome[i] = "FAILED" => pc = "crashed" /\ err # "none" /\ pos = i
    /\ (pc \in {"walk", "done", "dest_writing"} /\ ~leaked) => fs[Tmp] = NoFile

\* C1 witness: os.replace failed in convert's rewrite_parquet_with_metadata (or
\* fix's write_with_hf_metadata) and the temp file was removed.
C1_Witness ==
    /\ pc = "crashed"
    /\ err = "ReplaceError"
    /\ ViaTmp
    /\ ~leaked
    /\ fs[Tmp] = NoFile

\* C2: idempotence of fix, in place, applying.  A file the previous run wrote
\* is, in the next run with the same command line, given zero changes and
\* needs_write false, ends SKIPPED and is not written.
C2_Idempotent ==
    (args.script = "fix" /\ args.apply /\ ~HasOut /\ run > 1) =>
        \A i \in Files :
            (prev[i] = "WRITTEN" /\ Started(i)) =>
                /\ calc[i].handed
                /\ calc[i].changes = 0
                /\ ~calc[i].needs_write
                /\ outcome[i] = "SKIPPED"
                /\ fs[Src(i)] = orig[Src(i)]

\* C2 witness: the second run has skipped a file the first run wrote.
C2_Witness ==
    /\ args.script = "fix" /\ args.apply /\ ~HasOut /\ run = 2
    /\ \E i \in Files : prev[i] = "WRITTEN" /\ outcome[i] = "SKIPPED"

\* C3: narrow-scope rewrite.  For a document with an info.features map, an
\* entry's _type changes exactly when the entry is a dict tagged "List", and
\* then to "Sequence"; every other field of every entry, every other entry,
\* the names and their order, and everything outside the map stay; the change
\* count is the number of "List" entries and fix's changed names are their
\* names in feature-map order.
C3_NarrowScope ==
    (rw.fn # "none" /\ HasFeatures(rw.hf)) =>
        /\ rw.res.ret = IF rw.fn = "fix" THEN "triple" ELSE "pair"
        /\ IsRewriteOf(rw.res.hf, rw.hf)
        /\ rw.res.changes = Cardinality(ListPlaces(rw.hf.entries))
        /\ rw.fn = "fix" => rw.res.names = ListNames(rw.hf.entries)

\* C3 witness: fix's rewrite of a map whose first entry is a "Value" with a
\* nested "List" and whose second is a "List": one change, named "b".
C3_Witness ==
    /\ rw.fn = "fix"
    /\ HasFeatures(rw.hf)
    /\ Len(rw.hf.entries) = 2
    /\ rw.hf.entries[1].spec.type = "Value"
    /\ rw.hf.entries[1].spec.inner = "List"
    /\ rw.hf.entries[2].spec.type = "List"
    /\ rw.res.changes = 1
    /\ rw.res.names = <<"b">>

\* The path a write for file i goes to.
WrittenPath(i) == IF HasOut THEN DestPath(i) ELSE Src(i)

\* C4: metadata preservation, as claimed for every write path of the three
\* scripts: a key other than huggingface in the schema-level map before the
\* write is in the written file's schema-level map with the same value,
\* whatever the file-level map holds for it.
C4_MetadataPreserved ==
    \A i \in Files :
        (outcome[i] = "WRITTEN" /\ orig[Src(i)].smeta.custom # "absent") =>
            fs[WrittenPath(i)].smeta.custom = orig[Src(i)].smeta.custom

\* The blob is present and parses to something other than null (Python's
\* None, which main reads as "no metadata").
Usable(b) == Parses(b) /\ json_loads(b).top # "null"

\* File i is a parquet file this run's limit did not skip and whose handler
\* has returned.
Handled(i) ==
    /\ orig[Src(i)].kind = "parquet"
    /\ outcome[i] \notin {"UNSEEN", "LIMITED", "FAILED"}

\* C5: source selection in fix, as claimed: forced-schema hands the rewrite
\* the schema-level JSON whenever that blob is present and parses, whatever
\* the file-level blob is; forced-file the file-level JSON likewise; auto the
\* file-level blob when present, else the schema-level one.
C5_SourceSelection ==
    args.script = "fix" =>
        \A i \in Files :
            Handled(i) =>
                LET f == orig[Src(i)]
                IN  /\ (args.prefer = "schema" /\ Usable(f.smeta.hf)) =>
                          calc[i].handed /\ calc[i].chosen = json_loads(f.smeta.hf)
                    /\ (args.prefer = "file" /\ Usable(f.fmeta.hf)) =>
                          calc[i].handed /\ calc[i].chosen = json_loads(f.fmeta.hf)
                    /\ (args.prefer = "auto" /\ Usable(f.fmeta.hf)) =>
                          calc[i].handed /\ calc[i].chosen = json_loads(f.fmeta.hf)
                    /\ (args.prefer = "auto" /\ ~Truthy(f.fmeta.hf) /\ Usable(f.smeta.hf)) =>
                          calc[i].handed /\ calc[i].chosen = json_loads(f.smeta.hf)

\* C6: malformed or wrong-shape metadata is never fatal in fix, as claimed: a
\* file whose chosen JSON is not an object, or has no info.features object,
\* is processed without an error leaving main, with zero changes.
C6_MalformedNeverFatal ==
    args.script = "fix" =>
        \A i \in Files :
            (calc[i].handed /\ ~HasFeatures(calc[i].chosen)) =>
                /\ ~(outcome[i] = "FAILED" /\ err \in {"ValueError", "AttributeError"})
                /\ calc[i].changes = 0

\* The source tree is as it was when the run started.
SourceUntouched == \A i \in Files : fs[Src(i)] = orig[Src(i)]

\* No entry of the feature map is tagged "List".
NoListTag(hf) == ListPlaces(hf.entries) = {}

\* C7 as claimed: an apply run of fix with --out naming a directory other
\* than the source root never changes a file under the source root.
C7_MirrorAnyOtherOut ==
    (args.script = "fix" /\ args.apply /\ args.out \in {"other", "parent"}) => SourceUntouched

\* C7, amended: an apply run of fix with --out such that <out>/<basename of
\* root> is a tree apart from the source root never changes a file under the
\* source root, in any state of the run; when the run has ended with its
\* summary, every parquet file it processed has a counterpart in the
\* destination tree (with the payload and the other schema key of the source
\* and, when it had usable metadata, the rewritten huggingface blob in both
\* maps; an identical copy when it had none) and every other file an
\* identical copy.
C7_MirrorNeverMutatesSource ==
    (args.script = "fix" /\ args.apply /\ args.out = "other") =>
        /\ SourceUntouched
        /\ pc = "done" =>
              \A i \in 1..NumFiles :
                  LET s == orig[Src(i)]
                      d == fs[Dst(i)]
                  IN  /\ outcome[i] \in {"WRITTEN", "NO-METADATA", "COPIED", "LIMITED"}
                      /\ outcome[i] \in {"NO-METADATA", "COPIED"} => d = s
                      /\ outcome[i] = "COPIED" <=> s.kind # "parquet"
                      /\ outcome[i] = "WRITTEN" =>
                            /\ d.st = "complete"
                            /\ d.kind = "parquet"
                            /\ d.data = s.data
                            /\ d.smeta.custom = s.smeta.custom
                            /\ d.smeta.hf = d.fmeta.hf
                            /\ Parses(d.smeta.hf)
                            /\ d.smeta.hf = json_dumps(json_loads(d.smeta.hf))
                            /\ IsRewriteOf(json_loads(d.smeta.hf), calc[i].chosen)

\* C7 witness: a mirror run has ended with a rewritten file in the
\* destination tree and the source as it was.
C7_Witness ==
    /\ args.script = "fix" /\ args.apply /\ args.out = "other"
    /\ pc = "done"
    /\ \E i \in Files :
          /\ outcome[i] = "WRITTEN"
          /\ calc[i].changes = 1
          /\ fs[Dst(i)].st = "complete"
          /\ fs[Src(i)] = orig[Src(i)]

\* The blob is exactly what serializing a rewrite result gives: canonical
\* text of a JSON value other than null with no "List" tag in a feature map.
IsResult(b) ==
    /\ Usable(b)
    /\ b = json_dumps(json_loads(b))
    /\ NoListTag(json_loads(b))

\* Both huggingface slots are present and hold the same rewrite result.
BothSlotsHoldResult(f) == IsResult(f.smeta.hf) /\ f.fmeta.hf = f.smeta.hf

\* File i got through the rewrite in this run and its handler has returned.
Decided(i) == calc[i].handed /\ outcome[i] \in {"SKIPPED", "WRITTEN", "WOULD-WRITE"}

\* C8: the needs-write decision of fix, as claimed, with "already consistent"
\* read in the way most favourable to the claim (both slots present).
\* needs_write is false exactly when the serialized rewrite result is
\* byte-identical to both raw blobs; in place, a file with no "List" tag whose
\* two slots hold exactly the serialized rewrite result ends SKIPPED and is
\* not written; with --out and --apply a write is made for every file with
\* usable metadata whatever needs_write says (the write itself may fail).
C8_NeedsWriteNoOp ==
    args.script = "fix" =>
        \A i \in Files :
            LET f == orig[Src(i)]
                t == calc[i].target_bytes
            IN  /\ Decided(i) =>
                      ~calc[i].needs_write <=> (f.fmeta.hf = t /\ f.smeta.hf = t)
                /\ (~HasOut /\ f.kind = "parquet" /\ BothSlotsHoldResult(f)
                        /\ outcome[i] \notin {"UNSEEN", "LIMITED"}) =>
                      /\ outcome[i] = "SKIPPED"
                      /\ fs[Src(i)] = f
                /\ (HasOut /\ args.apply /\ calc[i].handed /\ outcome[i] # "UNSEEN") =>
                      \/ outcome[i] = "WRITTEN"
                      \/ outcome[i] = "FAILED" /\ err \in {"WriteError", "ReplaceError"}

\* C9: dry-run writes nothing.  Without --apply (normalize: with --dry-run),
\* in every state, every path holds what it held before the run, no file or
\* directory of an output tree and no temp file exists, and no write is in
\* progress; only outcomes and counters change.
C9_DryRunWritesNothing ==
    ~args.apply =>
        /\ fs = orig
        /\ ~dirMade
        /\ \A i \in Files : fs[Dst(i)] = NoFile
        /\ fs[Tmp] = NoFile
        /\ pc \in {"walk", "done", "crashed"}
        /\ cur = NoCur

\* C9 witness: a dry run with --out has ended having reported a would-be write
\* and a would-be copy.
C9_Witness ==
    /\ ~args.apply
    /\ HasOut
    /\ pc = "done"
    /\ \E i, j \in Files : outcome[i] = "WOULD-WRITE" /\ outcome[j] = "COPIED"
    /\ counters.copied = 1

\* A parquet file comes after file i in the walk.
HasLaterSibling(i) == \E j \in 1..NumFiles : j > i /\ orig[Src(j)].kind = "parquet"

\* C10: per-file failure isolation, as claimed: when a file's write fails in
\* an apply run of fix over several parquet files, the run still ends with
\* its summary and every parquet file later in the walk reaches NO-METADATA,
\* SKIPPED or WRITTEN (or is past the limit).
C10_FailureIsolation ==
    \A i \in Files :
        (args.script = "fix" /\ args.apply /\ pc \in {"done", "crashed"}
            /\ outcome[i] = "FAILED" /\ err \in {"WriteError", "ReplaceError"}
            /\ HasLaterSibling(i)) =>
            /\ pc = "done"
            /\ \A j \in 1..NumFiles :
                  (j > i /\ orig[Src(j)].kind = "parquet") =>
                      outcome[j] \in {"NO-METADATA", "SKIPPED", "WRITTEN", "LIMITED"}

\* C11: no partially written file.  Whenever no write is in progress (the
\* handler has returned, or the run has ended with its summary or with an
\* error), every file at a source path or a destination path is complete:
\* it holds its whole previous content and metadata or the whole new ones,
\* also after a write that failed part-way.
C11_NoPartialWrite ==
    pc \in {"walk", "done", "crashed"} =>
        \A i \in 1..MaxFiles :
            /\ fs[Src(i)].st # "partial"
            /\ fs[Dst(i)].st # "partial"

====
